---- MODULE Spec2Model ----
(* The declarations of Renderer/AAPLShaderTypes.h shared by the C/ObjC code  *)
(* and the Metal shaders: the record layouts the C struct rules give         *)
(* AAPLVertex and AAPLUniforms, the byte images the CPU fills and the GPU    *)
(* reads through those layouts, and the binding registries.                  *)
EXTENDS Integers, Sequences, FiniteSets, TLC

(***************************************************************************)
(* Bounds of the exploration.                                              *)
(***************************************************************************)
\* Number of AAPLVertex records in the vertex array.
MaxVertices == 2

(***************************************************************************)
(* Program constant.                                                       *)
(***************************************************************************)
\* The constant one too small.
AAPLNumShapesOffByOne == 16 - 1
AAPLNumShapes == 16

\* Shape indices of an array declared AAPLUniforms[AAPLNumShapes].
ShapeIndices == 0 .. (AAPLNumShapes - 1)

VertexIndices == 0 .. (MaxVertices - 1)

(***************************************************************************)
(* The simd types of the fields.  A type is cols columns; a column holds   *)
(* lanes floats of 4 bytes in colSize bytes (the bytes past the lanes are  *)
(* padding); align is the type's alignment.                                *)
(***************************************************************************)
FloatSize == 4

\* A 3-float vector stored packed, as packed_float3 is.
packed_float3 == [cols |-> 1, lanes |-> 3, colSize |-> 12, align |-> 4]
vector_float3 == [cols |-> 1, lanes |-> 3, colSize |-> 16, align |-> 16]
packed_float2 == [cols |-> 1, lanes |-> 2, colSize |-> 8, align |-> 4]
matrix_float4x4 == [cols |-> 4, lanes |-> 4, colSize |-> 16, align |-> 16]
matrix_float3x3 == [cols |-> 3, lanes |-> 3, colSize |-> 16, align |-> 16]

TypeSize(t) == t.cols * t.colSize

(***************************************************************************)
(* The two records, as their field declarations in declared order.         *)
(***************************************************************************)
\* AAPLVertex with its fields declared in the other order.
AAPLVertexSwapped ==
    << [name |-> "texcoord", type |-> packed_float2],
       [name |-> "position", type |-> vector_float3] >>
AAPLVertex ==
    << [name |-> "position", type |-> vector_float3],
       [name |-> "texcoord", type |-> packed_float2] >>

\* AAPLUniforms with normalMatrix declared before modelViewProjectionMatrix.
AAPLUniformsReordered ==
    << [name |-> "cameraPos", type |-> vector_float3],
       [name |-> "modelMatrix", type |-> matrix_float4x4],
       [name |-> "normalMatrix", type |-> matrix_float3x3],
       [name |-> "modelViewProjectionMatrix", type |-> matrix_float4x4] >>
AAPLUniforms ==
    << [name |-> "cameraPos", type |-> vector_float3],
       [name |-> "modelMatrix", type |-> matrix_float4x4],
       [name |-> "modelViewProjectionMatrix", type |-> matrix_float4x4],
       [name |-> "normalMatrix", type |-> matrix_float3x3] >>

(***************************************************************************)
(* C struct layout: each field goes to the first offset past the previous  *)
(* field that is a multiple of its alignment; the record is aligned as its *)
(* most aligned field and its size is rounded up to that alignment.        *)
(***************************************************************************)
AlignUp(n, a) == ((n + a - 1) \div a) * a

Max(a, b) == IF a >= b THEN a ELSE b

RECURSIVE EndOf(_, _)
\* The offset of the k-th declared field (1-based).
OffsetOf(decl, k) == AlignUp(EndOf(decl, k - 1), decl[k].type.align)

\* The first byte past the k-th declared field; 0 for k = 0.
EndOf(decl, k) ==
    IF k = 0 THEN 0 ELSE OffsetOf(decl, k) + TypeSize(decl[k].type)

RECURSIVE AlignOfUpTo(_, _)
AlignOfUpTo(decl, k) ==
    IF k = 0 THEN 1 ELSE Max(AlignOfUpTo(decl, k - 1), decl[k].type.align)

AlignOf(decl) == AlignOfUpTo(decl, Len(decl))

\* The size without the trailing padding.
UnpaddedSizeOf(decl) == EndOf(decl, Len(decl))
SizeOf(decl) == AlignUp(EndOf(decl, Len(decl)), AlignOf(decl))

FieldIndex(decl, f) == CHOOSE k \in 1 .. Len(decl) : decl[k].name = f

FieldNames(decl) == { decl[k].name : k \in 1 .. Len(decl) }

FieldType(decl, f) == decl[FieldIndex(decl, f)].type

\* offsetof(decl, f)
FieldOffset(decl, f) == OffsetOf(decl, FieldIndex(decl, f))

\* The first byte past the field f of the record.
FieldEnd(decl, f) == FieldOffset(decl, f) + TypeSize(FieldType(decl, f))

\* The byte offset of element i of an array of records (0-based).
\* The offset had the elements been counted from one.
ElemOffsetOneBased(decl, i) == (i + 1) * SizeOf(decl)
ElemOffset(decl, i) == i * SizeOf(decl)

\* The first byte past element i of an array of records.
ElemEnd(decl, i) == ElemOffset(decl, i) + SizeOf(decl)

(***************************************************************************)
(* A float is its IEEE-754 single-precision bit pattern, kept as its two   *)
(* 16-bit halves [hi, lo] (the pattern is hi * 2^16 + lo), and stored in   *)
(* memory as 4 bytes, least significant byte first.                        *)
(***************************************************************************)
IEEE(sign, exponent, mantissa) ==
    [ hi |-> sign * 2^15 + exponent * 2^7 + (mantissa \div 2^16),
      lo |-> mantissa % 2^16 ]

Zero == IEEE(0, 0, 0)
One == IEEE(0, 127, 0)
Two == IEEE(0, 128, 0)
Three == IEEE(0, 128, 2^22)
Quarter == IEEE(0, 125, 0)
ThreeQuarters == IEEE(0, 126, 2^22)
\* 3.1415927, the pattern 40490FDB: four different bytes.
Pi == IEEE(0, 128, 4788187)
\* A pattern with every bit set.
AllOnes == [ hi |-> 2^16 - 1, lo |-> 2^16 - 1 ]
\* What an indeterminate padding lane may hold.
PadValues == { Zero, AllOnes }

\* Byte k of the word w stored most significant byte first.
WordByteBigEndian(w, k) ==
    IF k < 2 THEN (w.hi \div 256^(1 - k)) % 256 ELSE (w.lo \div 256^(3 - k)) % 256
\* Byte k (0-based, from the lowest address) of the stored word w.
WordByte(w, k) ==
    IF k < 2 THEN (w.lo \div 256^k) % 256 ELSE (w.hi \div 256^(k - 2)) % 256

\* The word held by the 4 bytes at address addr of mem; mem[a + 1] is the
\* byte at address a.
WordAt(mem, addr) ==
    [ hi |-> mem[addr + 3] + 256 * mem[addr + 4],
      lo |-> mem[addr + 1] + 256 * mem[addr + 2] ]

\* Number of floats of a value of type t, laid column after column.
Floats(t) == t.cols * t.lanes

\* The byte image of a value val of type t; pad fills the padding lanes.
FieldBytes(t, val, pad) ==
    [ b \in 1 .. TypeSize(t) |->
        LET col == (b - 1) \div t.colSize
            within == (b - 1) % t.colSize
            lane == within \div FloatSize
            word == IF lane < t.lanes THEN val[col * t.lanes + lane + 1] ELSE pad
        IN  WordByte(word, within % FloatSize) ]

\* The value of type t read from the bytes of mem at addr.
FieldValue(t, mem, addr) ==
    [ k \in 1 .. Floats(t) |->
        WordAt(mem, addr + ((k - 1) \div t.lanes) * t.colSize
                         + ((k - 1) % t.lanes) * FloatSize) ]

\* mem after the bytes bs are stored at address addr.
WriteBytes(mem, addr, bs) ==
    SubSeq(mem, 1, addr) \o bs \o SubSeq(mem, addr + Len(bs) + 1, Len(mem))

\* The address of field f of element i of an array of decl records.
FieldAddress(decl, i, f) == ElemOffset(decl, i) + FieldOffset(decl, f)

\* buffer[i].f = val, through the layout of decl.
StoreField(buffer, decl, i, f, val, pad) ==
    WriteBytes(buffer, FieldAddress(decl, i, f), FieldBytes(FieldType(decl, f), val, pad))

\* buffer[i].f, through the layout of decl.
LoadField(buffer, decl, i, f) ==
    FieldValue(FieldType(decl, f), buffer, FieldAddress(decl, i, f))

\* buffer[i], every field read through the layout of decl.
LoadRecord(buffer, decl, i) ==
    [ f \in FieldNames(decl) |-> LoadField(buffer, decl, i, f) ]

ZeroValue(t) == [ k \in 1 .. Floats(t) |-> Zero ]

ZeroRecord(decl) == [ f \in FieldNames(decl) |-> ZeroValue(FieldType(decl, f)) ]

\* A zero-filled allocation of n bytes.
ZeroBytes(n) == [ a \in 1 .. n |-> 0 ]

Identity4x4 ==
    << One, Zero, Zero, Zero,  Zero, One, Zero, Zero,
       Zero, Zero, One, Zero,  Zero, Zero, Zero, One >>

Identity3x3 ==
    << One, Zero, Zero,  Zero, One, Zero,  Zero, Zero, One >>

\* The field values the CPU side stores.
PositionValues == { << One, Two, Three >> }
TexcoordValues == { << Quarter, ThreeQuarters >>, << ThreeQuarters, Pi >> }
CameraPosValues == { << Pi, Two, Three >> }
Matrix4x4Values == { Identity4x4 }
Matrix3x3Values == { Identity3x3 }

(***************************************************************************)
(* The binding registries.  An enumerator with no explicit value is one    *)
(* more than the enumerator before it, and zero when it is the first.      *)
(***************************************************************************)
Explicit(n, v) == [ name |-> n, explicit |-> TRUE, value |-> v ]

Implicit(n) == [ name |-> n, explicit |-> FALSE, value |-> 0 ]

AAPLBufferIndex ==
    << Explicit("AAPLBufferIndexVertices", 0),
       Explicit("AAPLBufferIndexUniforms", 1) >>

AAPLTextureIndex ==
    << Explicit("AAPLTextureIndexBaseColor", 0) >>

\* The argument-buffer IDs had the last enumerator no explicit value.
AAPLArgumentBufferBufferIDSequential ==
    << Implicit("AAPLArgumentBufferIDICB"),
       Implicit("AAPLArgumentBufferIDUniformBuffer"),
       Implicit("AAPLArgumentBufferIDDepth"),
       Implicit("AAPLArgumentBufferIDVertexBuffer"),
       Implicit("AAPLArgumentBufferIDVertexNumBuffer") >>
\* The argument-buffer IDs had the last enumerator the explicit value 3.
AAPLArgumentBufferBufferIDColliding ==
    << Implicit("AAPLArgumentBufferIDICB"),
       Implicit("AAPLArgumentBufferIDUniformBuffer"),
       Implicit("AAPLArgumentBufferIDDepth"),
       Implicit("AAPLArgumentBufferIDVertexBuffer"),
       Explicit("AAPLArgumentBufferIDVertexNumBuffer", 3) >>
AAPLArgumentBufferBufferID ==
    << Implicit("AAPLArgumentBufferIDICB"),
       Implicit("AAPLArgumentBufferIDUniformBuffer"),
       Implicit("AAPLArgumentBufferIDDepth"),
       Implicit("AAPLArgumentBufferIDVertexBuffer"),
       Explicit("AAPLArgumentBufferIDVertexNumBuffer", 50) >>

AAPLVertexBufferIndex ==
    << Implicit("AAPLVertexBufferIndexArgument") >>

RECURSIVE EnumValue(_, _)
\* The value of the k-th enumerator of the declaration.
EnumValue(enum, k) ==
    IF enum[k].explicit THEN enum[k].value
    ELSE IF k = 1 THEN 0
    ELSE EnumValue(enum, k - 1) + 1

EnumNames(enum) == { enum[k].name : k \in 1 .. Len(enum) }

\* The value of the enumerator named n.
ID(enum, n) == EnumValue(enum, CHOOSE k \in 1 .. Len(enum) : enum[k].name = n)

Registries ==
    [ AAPLBufferIndex |-> AAPLBufferIndex,
      AAPLTextureIndex |-> AAPLTextureIndex,
      AAPLArgumentBufferBufferID |-> AAPLArgumentBufferBufferID,
      AAPLVertexBufferIndex |-> AAPLVertexBufferIndex ]

(***************************************************************************)
(* State.  The CPU side fills the vertex array and the uniform array one   *)
(* record after the other, the fields of a record in any order:            *)
(*   vertexBuffer, uniformBuffer  the byte images the GPU reads;           *)
(*   vertices, uniforms           the field values the C code assigned;    *)
(*   vertex, shape                the index of the record being filled;    *)
(*   vertexPending, pending       its fields not stored yet;               *)
(*   garbage                      what this build leaves in padding lanes; *)
(*   tables                       per registry, the resource set at each   *)
(*                                slot (a set call replaces what the slot  *)
(*                                held);                                   *)
(*   encoded                      per registry, the names set so far.      *)
(***************************************************************************)
VARIABLES vertexBuffer, vertices, vertex, vertexPending,
          uniformBuffer, uniforms, shape, pending, garbage,
          tables, encoded

vars == << vertexBuffer, vertices, vertex, vertexPending,
           uniformBuffer, uniforms, shape, pending, garbage,
           tables, encoded >>

vertexVars == << vertexBuffer, vertices, vertex, vertexPending >>

uniformVars == << uniformBuffer, uniforms, shape, pending >>

bindVars == << tables, encoded >>

Init ==
    /\ vertexBuffer = ZeroBytes(MaxVertices * SizeOf(AAPLVertex))
    /\ vertices = [ i \in VertexIndices |-> ZeroRecord(AAPLVertex) ]
    /\ vertex = 0
    /\ vertexPending = FieldNames(AAPLVertex)
    /\ uniformBuffer = ZeroBytes(AAPLNumShapes * SizeOf(AAPLUniforms))
    /\ uniforms = [ i \in ShapeIndices |-> ZeroRecord(AAPLUniforms) ]
    /\ shape = 0
    /\ pending = FieldNames(AAPLUniforms)
    /\ garbage \in PadValues
    /\ tables = [ r \in DOMAIN Registries |-> << >> ]
    /\ encoded = [ r \in DOMAIN Registries |-> {} ]

\* vertices[vertex].f = val
StoreVertex(f, val) ==
    /\ vertex \in VertexIndices
    /\ f \in vertexPending
    /\ vertexBuffer' = StoreField(vertexBuffer, AAPLVertex, vertex, f, val, garbage)
    /\ vertices' = [ vertices EXCEPT ![vertex][f] = val ]
    /\ vertexPending' = vertexPending \ { f }
    /\ UNCHANGED << vertex, uniformVars, garbage, bindVars >>

\* uniforms[shape].f = val
StoreUniform(f, val) ==
    /\ shape \in ShapeIndices
    /\ f \in pending
    /\ uniformBuffer' = StoreField(uniformBuffer, AAPLUniforms, shape, f, val, garbage)
    /\ uniforms' = [ uniforms EXCEPT ![shape][f] = val ]
    /\ pending' = pending \ { f }
    /\ UNCHANGED << shape, vertexVars, garbage, bindVars >>

SetPosition == \E v \in PositionValues : StoreVertex("position", v)

SetTexcoord == \E v \in TexcoordValues : StoreVertex("texcoord", v)

\* The record is filled: on to the next element of the vertex array.
NextVertex ==
    /\ vertex \in VertexIndices
    /\ vertexPending = {}
    /\ vertex' = vertex + 1
    /\ vertexPending' = FieldNames(AAPLVertex)
    /\ UNCHANGED << vertexBuffer, vertices, uniformVars, garbage, bindVars >>

SetCameraPos == \E v \in CameraPosValues : StoreUniform("cameraPos", v)

SetModelMatrix == \E m \in Matrix4x4Values : StoreUniform("modelMatrix", m)

SetModelViewProjectionMatrix ==
    \E m \in Matrix4x4Values : StoreUniform("modelViewProjectionMatrix", m)

SetNormalMatrix == \E m \in Matrix3x3Values : StoreUniform("normalMatrix", m)

\* The record is filled: on to the next shape.
NextShape ==
    /\ shape \in ShapeIndices
    /\ pending = {}
    /\ shape' = shape + 1
    /\ pending' = FieldNames(AAPLUniforms)
    /\ UNCHANGED << uniformBuffer, uniforms, vertexVars, garbage, bindVars >>

Next ==
    \/ SetPosition
    \/ SetTexcoord
    \/ NextVertex
    \/ SetCameraPos
    \/ SetModelMatrix
    \/ SetModelViewProjectionMatrix
    \/ SetNormalMatrix
    \/ NextShape

Spec == Init /\ [][Next]_vars

\* The resource named n is set at the slot its enumerator names.
Bind(r, n) ==
    /\ n \in EnumNames(Registries[r]) \ encoded[r]
    /\ tables' = [ tables EXCEPT ![r] = (ID(Registries[r], n) :> n) @@ @ ]
    /\ encoded' = [ encoded EXCEPT ![r] = @ \cup { n } ]
    /\ UNCHANGED << vertexVars, uniformVars, garbage >>

SetBuffer == \E n \in EnumNames(AAPLBufferIndex) : Bind("AAPLBufferIndex", n)

SetTexture == \E n \in EnumNames(AAPLTextureIndex) : Bind("AAPLTextureIndex", n)

SetArgument ==
    \E n \in EnumNames(AAPLArgumentBufferBufferID) :
        Bind("AAPLArgumentBufferBufferID", n)

SetVertexBuffer ==
    \E n \in EnumNames(AAPLVertexBufferIndex) : Bind("AAPLVertexBufferIndex", n)

NextBind ==
    \/ SetBuffer
    \/ SetTexture
    \/ SetArgument
    \/ SetVertexBuffer

SpecBind == Init /\ [][NextBind]_vars

(***************************************************************************)
(* Properties.                                                             *)
(***************************************************************************)
ArgID(n) == ID(AAPLArgumentBufferBufferID, n)

\* The byte ranges lo1 .. hi1 - 1 and lo2 .. hi2 - 1 have no byte in common.
Disjoint(lo1, hi1, lo2, hi2) == hi1 <= lo2 \/ hi2 <= lo1

\* C1: every binding identifier has the literal value listed: buffer
\* indices vertices = 0 and uniforms = 1; texture base color = 0;
\* argument-buffer IDs ICB = 0, uniform buffer = 1, depth = 2, vertex
\* buffer = 3 (numbered implicitly from zero) and vertex-count buffer = 50;
\* vertex-stage argument buffer = 0; and a resource that was set is found
\* at that literal slot of its registry's table.
BindingIdentifierValues ==
    /\ ID(AAPLBufferIndex, "AAPLBufferIndexVertices") = 0
    /\ ID(AAPLBufferIndex, "AAPLBufferIndexUniforms") = 1
    /\ ID(AAPLTextureIndex, "AAPLTextureIndexBaseColor") = 0
    /\ ArgID("AAPLArgumentBufferIDICB") = 0
    /\ ArgID("AAPLArgumentBufferIDUniformBuffer") = 1
    /\ ArgID("AAPLArgumentBufferIDDepth") = 2
    /\ ArgID("AAPLArgumentBufferIDVertexBuffer") = 3
    /\ ArgID("AAPLArgumentBufferIDVertexNumBuffer") = 50
    /\ ID(AAPLVertexBufferIndex, "AAPLVertexBufferIndexArgument") = 0
    /\ \A k \in 1 .. 4 : ~AAPLArgumentBufferBufferID[k].explicit
    /\ "AAPLArgumentBufferIDVertexNumBuffer" \in encoded["AAPLArgumentBufferBufferID"]
         => /\ 50 \in DOMAIN tables["AAPLArgumentBufferBufferID"]
            /\ tables["AAPLArgumentBufferBufferID"][50]
                 = "AAPLArgumentBufferIDVertexNumBuffer"

\* Every argument-buffer field is set and the vertex-count buffer sits at 50.
AllArgumentsSet ==
    /\ encoded["AAPLArgumentBufferBufferID"] = EnumNames(AAPLArgumentBufferBufferID)
    /\ DOMAIN tables["AAPLArgumentBufferBufferID"] = { 0, 1, 2, 3, 50 }
    /\ tables["AAPLArgumentBufferBufferID"][50] = "AAPLArgumentBufferIDVertexNumBuffer"

\* C8: within each registry the identifiers are pairwise distinct and
\* non-negative, so that no set call replaces the resource of another
\* name of the registry, and every argument-buffer ID other than the
\* vertex-count buffer's is below 50.
RegistryIdentifiersDistinct ==
    /\ \A r \in DOMAIN Registries :
         LET enum == Registries[r]
         IN  /\ \A k \in 1 .. Len(enum) : EnumValue(enum, k) >= 0
             /\ \A k, l \in 1 .. Len(enum) :
                  k # l => EnumValue(enum, k) # EnumValue(enum, l)
             /\ \A n \in encoded[r] :
                  /\ ID(enum, n) \in DOMAIN tables[r]
                  /\ tables[r][ID(enum, n)] = n
    /\ \A n \in EnumNames(AAPLArgumentBufferBufferID) :
         n # "AAPLArgumentBufferIDVertexNumBuffer" => ArgID(n) < 50

\* Every name of every registry is set and the tables hold one slot per name.
EveryNameSet ==
    \A r \in DOMAIN Registries :
        /\ encoded[r] = EnumNames(Registries[r])
        /\ Cardinality(DOMAIN tables[r]) = Len(Registries[r])

\* The vertex records whose fields are all stored.
FilledVertices == { i \in VertexIndices : i < vertex }

\* The uniform records whose fields are all stored.
FilledShapes == { i \in ShapeIndices : i < shape }

\* The texcoord of every filled vertex record is read back from the 8 bytes
\* at byte offset off of the record, and its position from offset 0.
TexcoordFoundAt(off) ==
    \A i \in FilledVertices :
        /\ FieldValue(vector_float3, vertexBuffer, ElemOffset(AAPLVertex, i))
             = vertices[i].position
        /\ FieldValue(packed_float2, vertexBuffer, ElemOffset(AAPLVertex, i) + off)
             = vertices[i].texcoord

\* C2 as stated: in AAPLVertex the byte offset of position is 0 and the
\* byte offset of texcoord is 12.
VertexTexcoordAtOffset12 ==
    /\ FieldOffset(AAPLVertex, "position") = 0
    /\ FieldOffset(AAPLVertex, "texcoord") = 12
    /\ TexcoordFoundAt(12)

\* C2 as amended: in AAPLVertex, laid out by the C struct rules with
\* vector_float3 (size 16, alignment 16) followed by packed_float2 (size 8,
\* alignment 4), the byte offset of position is 0 and the byte offset of
\* texcoord is 16, and the stored texcoord is read back from there.
VertexTexcoordAtOffset16 ==
    /\ TypeSize(vector_float3) = 16 /\ vector_float3.align = 16
    /\ TypeSize(packed_float2) = 8 /\ packed_float2.align = 4
    /\ FieldOffset(AAPLVertex, "position") = 0
    /\ FieldOffset(AAPLVertex, "texcoord") = 16
    /\ TexcoordFoundAt(16)

\* A vertex record is filled.
SomeVertexFilled == FilledVertices # {}

\* C3: the size of one AAPLVertex record, and so the stride between
\* consecutive elements of the vertex array, is 32 bytes: the 24 bytes up to
\* the end of texcoord rounded up to the record's 16-byte alignment; the
\* position of element i is read back from byte offset 32 * i.
VertexStride32 ==
    /\ SizeOf(AAPLVertex) = 32
    /\ AlignOf(AAPLVertex) = 16
    /\ EndOf(AAPLVertex, Len(AAPLVertex)) = 24
    /\ \A i \in VertexIndices :
         ElemOffset(AAPLVertex, i + 1) - ElemOffset(AAPLVertex, i) = 32
    /\ Len(vertexBuffer) = 32 * MaxVertices
    /\ \A i \in FilledVertices :
         FieldValue(vector_float3, vertexBuffer, 32 * i) = vertices[i].position

\* The second element of the vertex array is filled.
SecondVertexFilled == 1 \in FilledVertices

\* C4: in AAPLUniforms cameraPos is at byte offset 0 and modelMatrix,
\* modelViewProjectionMatrix and normalMatrix follow in that order at
\* strictly increasing offsets; each 4x4 matrix field occupies 64 bytes and
\* the 3x3 normalMatrix 48 bytes, three columns of 16 bytes each; the
\* cameraPos of a filled record is read back from the record's first bytes.
UniformsFieldOrder ==
    /\ FieldOffset(AAPLUniforms, "cameraPos") = 0
    /\ FieldOffset(AAPLUniforms, "cameraPos") < FieldOffset(AAPLUniforms, "modelMatrix")
    /\ FieldOffset(AAPLUniforms, "modelMatrix")
         < FieldOffset(AAPLUniforms, "modelViewProjectionMatrix")
    /\ FieldOffset(AAPLUniforms, "modelViewProjectionMatrix")
         < FieldOffset(AAPLUniforms, "normalMatrix")
    /\ [ k \in 1 .. Len(AAPLUniforms) |-> AAPLUniforms[k].name ]
         = << "cameraPos", "modelMatrix", "modelViewProjectionMatrix", "normalMatrix" >>
    /\ FieldEnd(AAPLUniforms, "modelMatrix")
         - FieldOffset(AAPLUniforms, "modelMatrix") = 64
    /\ FieldEnd(AAPLUniforms, "modelViewProjectionMatrix")
         - FieldOffset(AAPLUniforms, "modelViewProjectionMatrix") = 64
    /\ FieldEnd(AAPLUniforms, "normalMatrix")
         - FieldOffset(AAPLUniforms, "normalMatrix") = 48
    /\ FieldType(AAPLUniforms, "normalMatrix").cols = 3
    /\ FieldType(AAPLUniforms, "normalMatrix").colSize = 16
    /\ \A i \in FilledShapes :
         FieldValue(vector_float3, uniformBuffer, ElemOffset(AAPLUniforms, i))
           = uniforms[i].cameraPos

\* Every field of the first uniform record is stored, and the identity
\* matrices are read back from its bytes 16 .. 79, 80 .. 143 and 144 .. 191.
FirstShapeFilled ==
    /\ 0 \in FilledShapes
    /\ FieldValue(matrix_float4x4, uniformBuffer, 16) = Identity4x4
    /\ FieldValue(matrix_float4x4, uniformBuffer, 80) = Identity4x4
    /\ FieldValue(matrix_float3x3, uniformBuffer, 144) = Identity3x3

\* C5: AAPLNumShapes is 16, so the valid shape indices are exactly 0 .. 15:
\* the uniform array has the elements 0 .. 15, and a record being filled is
\* one of them.
NumShapesIs16 ==
    /\ AAPLNumShapes = 16
    /\ ShapeIndices = 0 .. 15
    /\ DOMAIN uniforms = 0 .. 15
    /\ Len(uniformBuffer) = 16 * SizeOf(AAPLUniforms)
    /\ shape \in 0 .. 16
    /\ pending # FieldNames(AAPLUniforms) => shape \in 0 .. 15

\* A field of the record of the last shape index, 15, is stored.
LastShapeStored == shape = 15 /\ pending # FieldNames(AAPLUniforms)

\* C6: reading the fields back from the byte image yields the values that
\* were written, for every record of the vertex array and of the uniform
\* array, whatever the values and the order of the stores.
RoundTrip ==
    /\ \A i \in VertexIndices : LoadRecord(vertexBuffer, AAPLVertex, i) = vertices[i]
    /\ \A i \in ShapeIndices : LoadRecord(uniformBuffer, AAPLUniforms, i) = uniforms[i]

\* A vertex with position (1,2,3) and texcoord (0.25,0.75) and a uniform
\* record with identity matrices are written and read back.
RoundTripExample ==
    /\ 0 \in FilledVertices /\ 0 \in FilledShapes
    /\ LoadField(vertexBuffer, AAPLVertex, 0, "position") = << One, Two, Three >>
    /\ LoadField(vertexBuffer, AAPLVertex, 0, "texcoord") = << Quarter, ThreeQuarters >>
    /\ LoadField(uniformBuffer, AAPLUniforms, 0, "modelMatrix") = Identity4x4
    /\ LoadField(uniformBuffer, AAPLUniforms, 0, "modelViewProjectionMatrix") = Identity4x4
    /\ LoadField(uniformBuffer, AAPLUniforms, 0, "normalMatrix") = Identity3x3
    /\ garbage = AllOnes

\* The offsets of the elements of the uniform array: element i at 192 * i,
\* a multiple of 16, 192 bytes long, no two elements sharing a byte, 3072
\* bytes in all.
UniformArrayOffsets ==
    /\ \A i \in ShapeIndices :
         /\ ElemOffset(AAPLUniforms, i) = 192 * i
         /\ ElemOffset(AAPLUniforms, i) % 16 = 0
         /\ ElemEnd(AAPLUniforms, i) - ElemOffset(AAPLUniforms, i) = 192
    /\ \A i, j \in ShapeIndices :
         i # j => Disjoint(ElemOffset(AAPLUniforms, i), ElemEnd(AAPLUniforms, i),
                           ElemOffset(AAPLUniforms, j), ElemEnd(AAPLUniforms, j))
    /\ AAPLNumShapes * SizeOf(AAPLUniforms) = 3072

\* C9: in the array of AAPLNumShapes AAPLUniforms records the record of
\* shape index i starts at byte offset 192 * i, a multiple of 16; the
\* records of two distinct shape indices occupy disjoint byte ranges; the
\* whole array occupies 16 * 192 = 3072 bytes; the stores into the record
\* being filled leave the bytes of the record after it untouched.
UniformArrayLayout ==
    /\ UniformArrayOffsets
    /\ Len(uniformBuffer) = 3072
    /\ shape + 1 \in ShapeIndices =>
         \A a \in (192 * (shape + 1)) .. (192 * (shape + 2) - 1) :
             uniformBuffer[a + 1] = 0

\* Two records of the uniform array are filled and a third is untouched.
TwoShapesFilled == shape = 2 /\ pending = FieldNames(AAPLUniforms)

Records == << AAPLVertex, AAPLUniforms >>

\* The layout of both records: fields pairwise disjoint and inside the
\* record, offsets multiples of the field alignments, sizes multiples of 16,
\* and in every array element the vector and matrix fields 16-byte aligned.
RecordLayoutsAligned ==
    /\ \A r \in 1 .. Len(Records) :
         LET decl == Records[r]
         IN  /\ \A f, g \in FieldNames(decl) :
                  f # g => Disjoint(FieldOffset(decl, f), FieldEnd(decl, f),
                                    FieldOffset(decl, g), FieldEnd(decl, g))
             /\ \A f \in FieldNames(decl) :
                  /\ 0 <= FieldOffset(decl, f)
                  /\ FieldOffset(decl, f) < FieldEnd(decl, f)
                  /\ FieldEnd(decl, f) <= SizeOf(decl)
                  /\ FieldOffset(decl, f) % FieldType(decl, f).align = 0
                  /\ FieldType(decl, f).align = (IF f = "texcoord" THEN 4 ELSE 16)
             /\ SizeOf(decl) % 16 = 0
    /\ \A i \in VertexIndices :
         FieldAddress(AAPLVertex, i, "position") % 16 = 0
    /\ \A i \in ShapeIndices : \A f \in FieldNames(AAPLUniforms) :
         FieldAddress(AAPLUniforms, i, f) % 16 = 0

\* C10: in both records the fields occupy pairwise disjoint byte ranges
\* inside the record's size, every field's offset is a multiple of the
\* field's alignment (16 for vector_float3 and the matrices, 4 for
\* packed_float2), and the record's size is a multiple of 16, so in every
\* element of an array the vector and matrix fields are 16-byte aligned,
\* those of the records being filled among them.
FieldsDisjointAndAligned ==
    /\ RecordLayoutsAligned
    /\ vertex \in VertexIndices =>
         FieldAddress(AAPLVertex, vertex, "position") % 16 = 0
    /\ shape \in ShapeIndices =>
         \A f \in FieldNames(AAPLUniforms) :
             FieldAddress(AAPLUniforms, shape, f) % 16 = 0

\* The last elements of both arrays are being filled.
LastElementsReached == vertex = MaxVertices - 1 /\ shape = AAPLNumShapes - 1

====
